---------------------------- MODULE Spec2Model ----------------------------
(***************************************************************************)
(* Ship CO2 emissions: the record store behind the API (backend/app) and   *)
(* the normalization pipeline that produces its interchange file           *)
(* (backend/prepare_db_data.py, scripts/preprocessing.py).                 *)
(*                                                                         *)
(* Specifications                                                          *)
(*   Spec         serving processes: startup bulk load, then API requests  *)
(*   SpecStartup  the startup handlers alone, against one shared store     *)
(*   SpecRequests the five request handlers, every server having started   *)
(*   SpecPipeline one run of main(): the reader, the projector,            *)
(*                process_data step by step and the sink, then load_csv    *)
(*                on the file the run wrote                                *)
(*   SpecRerun    main() run twice on one unchanged directory              *)
(***************************************************************************)
EXTENDS Integers, Sequences, FiniteSets, TLC

(***************************************************************************)
(* Bounds of the model.                                                    *)
(***************************************************************************)
MaxRecords == 2     \* rows of the interchange file
MaxRows == 2        \* rows of the combined spreadsheet row set

VARIABLES
    records,        \* main.py:37  the interchange file as loaded by load_csv
    ships,          \* the "ships" table: rows in insertion (id) order
    nextId,         \* the table's serial primary key
    pc,             \* per process: position in startup_event
    record_count,   \* per process: startup_event's local record_count
    status,         \* HTTP status of the request handled in the latest step,
                    \* 0 when that step handled no request
    handler,        \* the function that ran in the latest step
    page,           \* what get_ships returned in the latest step
    folder,         \* the files of the input directory
    xlsx_files,     \* get_xlsx_files' result, in the order iterdir() yielded
    columns,        \* the column labels of df
    input,          \* the projected row set handed to process_data
    df,             \* process_data's DataFrame
    dtype,          \* dtype of each column of df
    ppc,            \* the statement of process_data / main to run next
    output,         \* the interchange file written by convert_to_csv
    err,            \* the exception that aborted the pipeline run
    loaded,         \* load_csv's return value on the file the run wrote
    run,            \* which run of main() on the directory this is
    previous        \* the interchange file the run before this one wrote

storeVars == <<records, ships, nextId, pc, record_count, status, handler, page>>
pipeVars == <<folder, xlsx_files, columns, input, df, dtype, ppc, output, err,
              loaded, run, previous>>
vars == <<records, ships, nextId, pc, record_count, status, handler, page,
          folder, xlsx_files, columns, input, df, dtype, ppc, output, err,
          loaded, run, previous>>

SeqsUpTo(S, n) == UNION {[1..k -> S] : k \in 0..n}

(***************************************************************************)
(* The record store.  A row of the table is its id and its name: none of   *)
(* the other seven fields is read by a condition of any handler.           *)
(***************************************************************************)
Procs == {"w1", "w2"}

ShipNames == {"A", "B"}

\* The serial key is capped so that the state space is finite: the table can
\* take one row more than the interchange file holds.
MaxId == MaxRecords + 1

\* Ship(**record) with the next serial id.
Ship(id, name) == [id |-> id, name |-> name]

NamesOf(table) == {table[i].name : i \in DOMAIN table}

\* Ship.all().count()
count(table) == Len(table)

\* Ship.get_or_none(**filter) over the positions that match the filter: no
\* row gives None, one row gives that row, several raise
\* MultipleObjectsReturned.
get_or_none(matching) ==
    IF matching = {} THEN "None"
    ELSE IF Cardinality(matching) = 1 THEN "one"
    ELSE "MultipleObjectsReturned"

\* bulk_create as INSERT ... ON CONFLICT DO NOTHING over a unique name.
bulk_create_ignore_conflicts(table, first, recs) ==
    LET Fresh(i) == /\ recs[i] \notin NamesOf(table)
                    /\ \A j \in 1..(i - 1) : recs[j] # recs[i]
        kept == SelectSeq([i \in 1..Len(recs) |-> i], Fresh)
    IN  table \o [i \in 1..Len(kept) |-> Ship(first + i - 1, recs[kept[i]])]

\* Ship.bulk_create([Ship(**record) for record in records])
bulk_create(table, first, recs) ==
    table \o [i \in 1..Len(recs) |-> Ship(first + i - 1, recs[i])]

\* get_ships' return value when it returned none.
NoPage == [returned |-> FALSE, total_count |-> 0, ships |-> <<>>]

\* The step ran the function `name`, which is not get_ships.
Handled(name) ==
    /\ handler' = name
    /\ page' = NoPage

\* startup_event up to its first read of the table.
startup_count(p) ==
    /\ pc[p] = "start"
    /\ record_count' = [record_count EXCEPT ![p] = count(ships)]
    /\ pc' = [pc EXCEPT ![p] = "counted"]
    /\ status' = 0
    /\ Handled("startup_event")
    /\ UNCHANGED <<records, ships, nextId>>
    /\ UNCHANGED pipeVars

\* The guard dropped: every startup loads.
ShouldLoadAlways(n) == n >= 0

\* The guard of the bulk load: record_count == 0.
ShouldLoad(n) == n = 0

\* startup_event from the guard on: insert_records(records) when the count
\* read earlier was 0.
startup_load(p) ==
    /\ pc[p] = "counted"
    /\ IF ShouldLoad(record_count[p])
       THEN /\ nextId + Len(records) - 1 <= MaxId
            /\ ships' = bulk_create(ships, nextId, records)
            /\ nextId' = nextId + Len(records)
       ELSE UNCHANGED <<ships, nextId>>
    /\ pc' = [pc EXCEPT ![p] = "serving"]
    /\ status' = 0
    /\ Handled("startup_event")
    /\ UNCHANGED <<records, record_count>>
    /\ UNCHANGED pipeVars

\* POST /
create_ship(p, name) ==
    LET existing_ship == get_or_none({i \in DOMAIN ships : ships[i].name = name})
    IN  /\ pc[p] = "serving"
        /\ existing_ship = "None" => nextId <= MaxId
        /\ IF existing_ship = "MultipleObjectsReturned"
           THEN /\ status' = 500
                /\ UNCHANGED <<ships, nextId>>
           ELSE IF existing_ship = "one"
           THEN /\ status' = 400
                /\ UNCHANGED <<ships, nextId>>
           ELSE /\ ships' = Append(ships, Ship(nextId, name))
                /\ nextId' = nextId + 1
                /\ status' = 200
        /\ Handled("create_ship")
        /\ UNCHANGED <<records, pc, record_count>>
        /\ UNCHANGED pipeVars

\* PUT /{id} as an upsert: a missing id is created.
update_or_create(p, id, name) ==
    /\ pc[p] = "serving"
    /\ ships' = IF \E i \in DOMAIN ships : ships[i].id = id
                THEN [i \in DOMAIN ships |->
                        IF ships[i].id = id THEN Ship(id, name) ELSE ships[i]]
                ELSE Append(ships, Ship(id, name))
    /\ status' = 200
    /\ Handled("update_ship_by_id")
    /\ UNCHANGED <<records, nextId, pc, record_count>>
    /\ UNCHANGED pipeVars

\* PUT /{id}
update_ship_by_id(p, id, name) ==
    LET ship == get_or_none({i \in DOMAIN ships : ships[i].id = id})
    IN  /\ pc[p] = "serving"
        /\ IF ship = "None"
           THEN /\ status' = 404
                /\ UNCHANGED ships
           ELSE /\ ships' = [i \in DOMAIN ships |->
                                IF ships[i].id = id THEN Ship(id, name) ELSE ships[i]]
                /\ status' = 200
        /\ Handled("update_ship_by_id")
        /\ UNCHANGED <<records, nextId, pc, record_count>>
        /\ UNCHANGED pipeVars

\* DELETE /{id} deleting by the name of the row found.
delete_ship_by_name_of(p, id) ==
    LET ship == get_or_none({i \in DOMAIN ships : ships[i].id = id})
        name == (CHOOSE row \in {ships[i] : i \in DOMAIN ships} : row.id = id).name
        Others(row) == row.name # name
    IN  /\ pc[p] = "serving"
        /\ IF ship = "None"
           THEN /\ status' = 404
                /\ UNCHANGED ships
           ELSE /\ ships' = SelectSeq(ships, Others)
                /\ status' = 200
        /\ Handled("delete_ship_by_id")
        /\ UNCHANGED <<records, nextId, pc, record_count>>
        /\ UNCHANGED pipeVars

\* DELETE /{id}
delete_ship_by_id(p, id) ==
    LET ship == get_or_none({i \in DOMAIN ships : ships[i].id = id})
        Others(row) == row.id # id
    IN  /\ pc[p] = "serving"
        /\ IF ship = "None"
           THEN /\ status' = 404
                /\ UNCHANGED ships
           ELSE /\ ships' = SelectSeq(ships, Others)
                /\ status' = 200
        /\ Handled("delete_ship_by_id")
        /\ UNCHANGED <<records, nextId, pc, record_count>>
        /\ UNCHANGED pipeVars

\* GET /{id}
get_ship_by_id(p, id) ==
    LET ship == get_or_none({i \in DOMAIN ships : ships[i].id = id})
    IN  /\ pc[p] = "serving"
        /\ status' = IF ship = "None" THEN 404 ELSE 200
        /\ Handled("get_ship_by_id")
        /\ UNCHANGED <<records, ships, nextId, pc, record_count>>
        /\ UNCHANGED pipeVars

\* The page taken with skip as the position of its first row.
offset_limit_from_position(table, skip, limit) ==
    SubSeq(table, IF skip = 0 THEN 1 ELSE skip,
           IF skip + limit < Len(table) THEN skip + limit ELSE Len(table))

\* Ship.all().offset(skip).limit(limit) on a table read in id order.
offset_limit(table, skip, limit) ==
    SubSeq(table, skip + 1, IF skip + limit < Len(table) THEN skip + limit ELSE Len(table))

\* GET /
get_ships(p, skip, limit) ==
    LET total_count == count(ships)
        found == offset_limit(ships, skip, limit)
    IN  /\ pc[p] = "serving"
        /\ IF found = <<>>
           THEN /\ status' = 404
                /\ page' = NoPage
           ELSE /\ status' = 200
                /\ page' = [returned |-> TRUE, total_count |-> total_count, ships |-> found]
        /\ handler' = "get_ships"
        /\ UNCHANGED <<records, ships, nextId, pc, record_count>>
        /\ UNCHANGED pipeVars

\* No interchange file written.
NoFile == [written |-> FALSE, rows |-> <<>>, text |-> <<>>]

PipeIdle ==
    /\ input = <<>>
    /\ df = <<>>
    /\ dtype = <<>>
    /\ ppc = "idle"
    /\ output = NoFile
    /\ err = "none"
    /\ folder = {}
    /\ xlsx_files = <<>>
    /\ columns = <<>>
    /\ loaded = <<>>
    /\ run = 1
    /\ previous = NoFile

Init ==
    /\ records \in SeqsUpTo(ShipNames, MaxRecords)
    /\ ships = <<>>
    /\ nextId = 1
    /\ pc = [p \in Procs |-> "start"]
    /\ record_count = [p \in Procs |-> 0]
    /\ status = 0
    /\ handler = "none"
    /\ page = NoPage
    /\ PipeIdle

Startup == \E p \in Procs : startup_count(p) \/ startup_load(p)

Create == \E p \in Procs, name \in ShipNames : create_ship(p, name)

Update == \E p \in Procs, id \in 1..nextId, name \in ShipNames : update_ship_by_id(p, id, name)

Delete == \E p \in Procs, id \in 1..nextId : delete_ship_by_id(p, id)

Get == \E p \in Procs, id \in 1..nextId : get_ship_by_id(p, id)

\* skip >= 0 and 1 <= limit <= 1000, here up to the size of the file.
List == \E p \in Procs, skip \in 0..MaxRecords, limit \in 1..MaxRecords : get_ships(p, skip, limit)

\* The handlers that write the table.  The two that only read it are left
\* to SpecRequests.
Next == Startup \/ Create \/ Update \/ Delete

Spec == Init /\ [][Next]_vars

\* Tables an earlier run of the service can have left behind.
PriorTables == {bulk_create(<<>>, 1, recs) : recs \in SeqsUpTo(ShipNames, MaxRecords)}

\* Servers starting against a store that is empty or was loaded before.
InitStartup ==
    /\ records \in SeqsUpTo(ShipNames, MaxRecords)
    /\ ships \in PriorTables
    /\ nextId = Len(ships) + 1
    /\ pc = [p \in Procs |-> "start"]
    /\ record_count = [p \in Procs |-> 0]
    /\ status = 0
    /\ handler = "none"
    /\ page = NoPage
    /\ PipeIdle

SpecStartup == InitStartup /\ [][Startup]_vars

\* Every server has started, one of them having loaded the file.
InitRequests ==
    /\ records \in SeqsUpTo(ShipNames, MaxRecords)
    /\ ships = bulk_create(<<>>, 1, records)
    /\ nextId = Len(ships) + 1
    /\ pc = [p \in Procs |-> "serving"]
    /\ record_count = [p \in Procs |-> 0]
    /\ status = 0
    /\ handler = "none"
    /\ page = NoPage
    /\ PipeIdle

NextRequests == Create \/ Update \/ Delete \/ Get \/ List

SpecRequests == InitRequests /\ [][NextRequests]_vars

(***************************************************************************)
(* Claims about the record store.                                          *)
(***************************************************************************)

\* C1: no two Ship records of the table have the same name, in every
\* reachable state.  The table has no unique constraint on name
\* (models.py:7), update_ship_by_id writes the name unchecked and the bulk
\* load inserts whatever the file holds.
C1_NameUnique ==
    \A i, j \in DOMAIN ships : ships[i].name = ships[j].name => i = j

\* C2: a create request whose name is already in the table answers 400 and
\* leaves the table as it was.  With the name held by two rows
\* get_or_none raises and the request ends as a server error.
C2_DuplicateCreateIs400 ==
    [][\A p \in Procs, name \in ShipNames :
          (create_ship(p, name) /\ name \in NamesOf(ships))
              => (status' = 400 /\ ships' = ships /\ nextId' = nextId)]_vars

\* C3: a startup reads the number of rows; it appends the interchange
\* records exactly when that number was 0, and a startup that found one or
\* more rows leaves the table unchanged.
C3_LoadOnlyIfCountZero ==
    [][\A p \in Procs :
          /\ (pc[p] = "start" /\ pc'[p] = "counted")
                => (record_count'[p] = Len(ships) /\ ships' = ships)
          /\ (pc[p] = "counted" /\ pc'[p] = "serving")
                => IF record_count[p] = 0
                   THEN /\ Len(ships') = Len(ships) + Len(records)
                        /\ SubSeq(ships', 1, Len(ships)) = ships
                        /\ \A i \in 1..Len(records) :
                              ships'[Len(ships) + i].name = records[i]
                   ELSE ships' = ships]_vars

\* A startup that found rows has finished, and so has one that loaded.
C3_Witness ==
    /\ records # <<>>
    /\ \E p \in Procs : pc[p] = "serving" /\ record_count[p] > 0
    /\ \E p \in Procs : pc[p] = "serving" /\ record_count[p] = 0

Loaders == {p \in Procs : pc[p] = "serving" /\ record_count[p] = 0}

RECURSIVE Repeat(_, _)
Repeat(s, k) == IF k = 0 THEN <<>> ELSE s \o Repeat(s, k - 1)

NameSeq(table) == [i \in DOMAIN table |-> table[i].name]

\* C4: with only startup handlers running, every process that read a count
\* of 0 and finished has appended the whole file: when two did, the table
\* holds every interchange record twice.
C4_ConcurrentStartupsDuplicate ==
    Loaders # {} => NameSeq(ships) = Repeat(records, Cardinality(Loaders))

\* Both processes read 0 and both loaded a non-empty file.
C4_Witness ==
    /\ Loaders = Procs
    /\ records # <<>>
    /\ NameSeq(ships) = records \o records


(***************************************************************************)
(* The normalization pipeline.                                             *)
(*                                                                         *)
(* A cell is a Python value: text (a sequence of characters), NaN (an      *)
(* empty spreadsheet cell), an int, or a float m / 10^k.                   *)
(***************************************************************************)
Text(s) == [t |-> "str", s |-> s, n |-> 0, k |-> 0]
NaN == [t |-> "nan", s |-> <<>>, n |-> 0, k |-> 0]
Integer(n) == [t |-> "int", s |-> <<>>, n |-> n, k |-> 0]

\* The float m / 10^k, in lowest terms of k.
RECURSIVE Float(_, _)
Float(m, k) ==
    IF k > 0 /\ m % 10 = 0 THEN Float(m \div 10, k - 1)
    ELSE [t |-> "float", s |-> <<>>, n |-> m, k |-> k]

DigitChars == <<"0", "1", "2", "3", "4", "5", "6", "7", "8", "9">>

\* \d
IsDigit(c) == \E i \in 1..10 : DigitChars[i] = c

DigitVal(c) == (CHOOSE i \in 1..10 : DigitChars[i] = c) - 1

RECURSIVE ToNat(_)
ToNat(s) ==
    IF s = <<>> THEN 0
    ELSE 10 * ToNat(SubSeq(s, 1, Len(s) - 1)) + DigitVal(s[Len(s)])

\* n written with w digits, zero padded (%d, %m, %Y of strftime).
RECURSIVE NatDigits(_, _)
NatDigits(n, w) ==
    IF w = 0 THEN <<>>
    ELSE Append(NatDigits(n \div 10, w - 1), DigitChars[(n % 10) + 1])

RECURSIVE NumDigits(_)
NumDigits(n) == IF n < 10 THEN 1 ELSE 1 + NumDigits(n \div 10)

RECURSIVE Pow10(_)
Pow10(k) == IF k = 0 THEN 1 ELSE 10 * Pow10(k - 1)

AllDigits(s) == \A i \in DOMAIN s : IsDigit(s[i])

\* The last position of the longest run of digits that starts at i (i - 1
\* when s[i] is no digit): what a greedy \d+ consumes.
RECURSIVE RunEnd(_, _)
RunEnd(s, i) ==
    IF i <= Len(s) /\ IsDigit(s[i]) THEN RunEnd(s, i + 1) ELSE i - 1

\* float(text) for text made of an optional sign, digits and at most one
\* dot; any other text raises ValueError.
py_float(s) ==
    LET neg == s # <<>> /\ s[1] = "-"
        body == IF neg THEN SubSeq(s, 2, Len(s)) ELSE s
        dots == {i \in DOMAIN body : body[i] = "."}
        dot == IF dots = {} THEN Len(body) + 1 ELSE CHOOSE i \in dots : TRUE
        whole == SubSeq(body, 1, dot - 1)
        frac == SubSeq(body, dot + 1, Len(body))
        m == ToNat(whole \o frac)
    IN  IF /\ Cardinality(dots) <= 1
           /\ AllDigits(whole) /\ AllDigits(frac)
           /\ Len(whole) + Len(frac) >= 1
        THEN [ok |-> TRUE, v |-> Float(IF neg THEN 0 - m ELSE m, Len(frac))]
        ELSE [ok |-> FALSE, v |-> NaN]

\* int(x): text must be an optional sign and digits; a float is truncated
\* and NaN raises ValueError.
py_int(x) ==
    IF x.t = "int" THEN [ok |-> TRUE, n |-> x.n]
    ELSE IF x.t = "float" THEN [ok |-> TRUE, n |-> x.n \div Pow10(x.k)]
    ELSE IF x.t = "str"
    THEN LET signed == x.s # <<>> /\ x.s[1] \in {"-", "+"}
             body == IF signed THEN SubSeq(x.s, 2, Len(x.s)) ELSE x.s
         IN  IF body # <<>> /\ AllDigits(body)
             THEN [ok |-> TRUE, n |-> IF x.s[1] = "-" THEN 0 - ToNat(body) ELSE ToNat(body)]
             ELSE [ok |-> FALSE, n |-> 0]
    ELSE [ok |-> FALSE, n |-> 0]

\* Series.str.extract("(\d+\.\d+)") on one element: the leftmost match of
\* digits, dot, digits, each run greedy; NaN for no match and for an
\* element that is not text.
str_extract(x) ==
    IF x.t # "str" THEN NaN
    ELSE LET s == x.s
             MatchAt(i) == /\ IsDigit(s[i])
                           /\ RunEnd(s, i) + 2 <= Len(s)
                           /\ s[RunEnd(s, i) + 1] = "."
                           /\ IsDigit(s[RunEnd(s, i) + 2])
             starts == {i \in DOMAIN s : MatchAt(i)}
         IN  IF starts = {} THEN NaN
             ELSE LET i0 == CHOOSE i \in starts : \A j \in starts : i <= j
                      last == RunEnd(s, RunEnd(s, i0) + 2)
                  IN  Text(SubSeq(s, i0, last))

\* .astype(float) on one element.
astype_float(x) ==
    IF x.t = "str" THEN py_float(x.s)
    ELSE IF x.t = "int" THEN [ok |-> TRUE, v |-> Float(x.n, 0)]
    ELSE [ok |-> TRUE, v |-> x]

\* Series.astype(str) on one element.
astype_str(x) ==
    IF x.t = "str" THEN x.s
    ELSE IF x.t = "nan" THEN <<"n", "a", "n">>
    ELSE IF x.t = "int" THEN NatDigits(x.n, NumDigits(x.n))
    ELSE NatDigits(x.n \div Pow10(x.k), NumDigits(x.n \div Pow10(x.k)))
            \o <<".">> \o NatDigits(x.n % Pow10(x.k), IF x.k = 0 THEN 1 ELSE x.k)

IsLeap(y) == (y % 4 = 0 /\ y % 100 # 0) \/ y % 400 = 0

DaysInMonth(y, m) ==
    IF m = 2 THEN (IF IsLeap(y) THEN 29 ELSE 28)
    ELSE IF m \in {4, 6, 9, 11} THEN 30 ELSE 31

Date(y, m, d) == [t |-> "date", y |-> y, m |-> m, d |-> d]
None == [t |-> "None", y |-> 0, m |-> 0, d |-> 0]
Raise == [t |-> "raise", y |-> 0, m |-> 0, d |-> 0]

\* datetime.date(y, m, d) exists: MINYEAR <= y <= MAXYEAR and the day is in
\* the month.
IsDate(y, m, d) ==
    /\ y \in 1..9999
    /\ m \in 1..12
    /\ d \in 1..DaysInMonth(y, m)

\* The dates a datetime64[ns] can hold: Timestamp.min is within
\* 1677-09-21 and Timestamp.max within 2262-04-11.
InNsBounds(x) ==
    LET ord == 10000 * x.y + 100 * x.m + x.d
    IN  16770922 <= ord /\ ord <= 22620411

\* year_to_last_day: int(year) inside the try, datetime.date(year, 12, 31)
\* after it, where its ValueError is not caught.
year_to_last_day(year) ==
    LET c == py_int(year)
    IN  IF ~c.ok THEN None
        ELSE IF IsDate(c.n, 12, 31) THEN Date(c.n, 12, 31)
        ELSE Raise

\* Timestamp.strftime("%d/%m/%Y"); NaT gives NaN.
strftime_dmy(x) ==
    IF x.t # "date" THEN NaN
    ELSE Text(NatDigits(x.d, 2) \o <<"/">> \o NatDigits(x.m, 2) \o <<"/">> \o NatDigits(x.y, 4))

\* Timestamp.strftime("%Y-%m-%d"); NaT gives NaN.
strftime_iso(x) ==
    IF x.t # "date" THEN NaN
    ELSE Text(NatDigits(x.y, 4) \o <<"-">> \o NatDigits(x.m, 2) \o <<"-">> \o NatDigits(x.d, 2))

\* pd.to_datetime(x, format="%d/%m/%Y", errors="coerce") on one element:
\* one or two digits of day, of month, four of year and nothing after them;
\* what is no date of a datetime64[ns] becomes NaT.
to_datetime_dmy(x) ==
    IF x.t # "str" THEN None
    ELSE LET s == x.s
             d2 == RunEnd(s, 1)
             m2 == RunEnd(s, d2 + 2)
             y2 == RunEnd(s, m2 + 2)
             day == ToNat(SubSeq(s, 1, d2))
             month == ToNat(SubSeq(s, d2 + 2, m2))
             year == ToNat(SubSeq(s, m2 + 2, y2))
         IN  IF /\ d2 \in 1..2
                /\ d2 + 1 <= Len(s) /\ s[d2 + 1] = "/"
                /\ m2 - (d2 + 1) \in 1..2
                /\ m2 + 1 <= Len(s) /\ s[m2 + 1] = "/"
                /\ y2 - (m2 + 1) = 4
                /\ y2 = Len(s)
                /\ IsDate(year, month, day)
                /\ InNsBounds(Date(year, month, day))
             THEN Date(year, month, day)
             ELSE None

\* re.match(r"^\d{2}/\d{2}/\d{4}$", s): $ matches at the end of the text
\* and also before a newline that ends it.
str_match_date_format(s) ==
    /\ Len(s) >= 10
    /\ \A i \in {1, 2, 4, 5, 7, 8, 9, 10} : IsDigit(s[i])
    /\ s[3] = "/" /\ s[6] = "/"
    /\ \/ Len(s) = 10
       \/ Len(s) = 11 /\ s[11] = "\n"

\* The dtype pandas infers for a column read from the spreadsheets.
infer_dtype(cells) ==
    IF cells = <<>> \/ \E i \in DOMAIN cells : cells[i].t = "str" THEN "object"
    ELSE IF \A i \in DOMAIN cells : cells[i].t = "int" THEN "int64"
    ELSE "float64"

Column(frame, col) == [i \in DOMAIN frame |-> frame[i][col]]

\* The logical fields of a row, in the order of COLUMNS_TO_KEEP.
Fields == <<"name", "ship_type", "rp", "issue", "expiry", "co2", "total", "te">>

\* One field of DataFrame.to_csv: a missing value is written as nothing,
\* text as it is, a number by its repr.
csv_field(x) == IF x.t = "nan" THEN <<>> ELSE astype_str(x)

\* DataFrame.to_csv(file_path, index=False): the data lines of the file,
\* each a field text per column and no index label.
to_csv(frame) ==
    [i \in DOMAIN frame |->
        [f \in {Fields[j] : j \in DOMAIN Fields} |-> csv_field(frame[i][f])]]

\* A raise that a handler in main() answers by writing the rows it has.
Abort_and_write(e) ==
    /\ ppc' = "aborted"
    /\ err' = e
    /\ output' = [written |-> TRUE, rows |-> df, text |-> to_csv(df)]
    /\ UNCHANGED <<folder, xlsx_files, columns, input, df, dtype,
                   loaded, run, previous>>

\* A raise below main(): nothing catches it, and main() ends there.
Abort(e) ==
    /\ ppc' = "aborted"
    /\ err' = e
    /\ UNCHANGED <<folder, xlsx_files, columns, input, df, dtype, output,
                   loaded, run, previous>>

\* process_data moves on to its next statement.
Goto(next) ==
    /\ ppc' = next
    /\ UNCHANGED <<folder, xlsx_files, columns, input, output, err,
                   loaded, run, previous>>

\* prepare_db_data.py:65 with preprocessing.py:102.  The .str accessor
\* exists only on a column of dtype object.
extract_technical_efficiency_value ==
    /\ ppc = "extract"
    /\ IF dtype.te # "object"
       THEN Abort("AttributeError")
       ELSE /\ df' = [i \in DOMAIN df |->
                        [df[i] EXCEPT !.te = astype_float(str_extract(df[i].te)).v]]
            /\ dtype' = [dtype EXCEPT !.te = "float64"]
            /\ Goto("dropna")
    /\ UNCHANGED storeVars

IsMissing(x) == x.t = "nan"

\* prepare_db_data.py:66
dropna ==
    /\ ppc = "dropna"
    /\ df' = SelectSeq(df, LAMBDA row : ~IsMissing(row.te))
    /\ UNCHANGED dtype
    /\ Goto("dropzero")
    /\ UNCHANGED storeVars

\* The zero filter left out.
IsZeroNever(x) == FALSE

\* isin([0.0, 0])
IsZero(x) == x.t \in {"float", "int"} /\ x.n = 0

\* The zero filter followed by reset_index(drop=True).
drop_zero_reset_index ==
    /\ ppc = "dropzero"
    /\ LET kept == SelectSeq(df, LAMBDA row : ~IsZero(row.te))
       IN  df' = [i \in DOMAIN kept |-> [kept[i] EXCEPT !.idx = i]]
    /\ UNCHANGED dtype
    /\ Goto("dropsentinel")
    /\ UNCHANGED storeVars

\* prepare_db_data.py:67
drop_zero ==
    /\ ppc = "dropzero"
    /\ df' = SelectSeq(df, LAMBDA row : ~IsZero(row.te))
    /\ UNCHANGED dtype
    /\ Goto("dropsentinel")
    /\ UNCHANGED storeVars

DivisionByZero ==
    Text(<<"D", "i", "v", "i", "s", "i", "o", "n", " ", "b", "y", " ", "z", "e", "r", "o", "!">>)

\* The comparison made after stripping: never equal for these values.
IsSentinelNever(x) == FALSE

\* == "Division by zero!"
IsSentinel(x) == x = DivisionByZero

\* prepare_db_data.py:69
drop_division_by_zero ==
    /\ ppc = "dropsentinel"
    /\ df' = SelectSeq(df, LAMBDA row : ~IsSentinel(row.co2))
    /\ UNCHANGED dtype
    /\ Goto("astype")
    /\ UNCHANGED storeVars

\* prepare_db_data.py:70: a value float() rejects raises ValueError.
astype_float_column ==
    /\ ppc = "astype"
    /\ IF \E i \in DOMAIN df : ~astype_float(df[i].co2).ok
       THEN Abort("ValueError")
       ELSE /\ df' = [i \in DOMAIN df |-> [df[i] EXCEPT !.co2 = astype_float(df[i].co2).v]]
            /\ dtype' = [dtype EXCEPT !.co2 = "float64"]
            /\ Goto("reporting")
    /\ UNCHANGED storeVars

\* prepare_db_data.py:71 with preprocessing.py:148-163: apply the conversion
\* function, pd.to_datetime the dates, then strftime them to DD/MM/YYYY.
convert_reporting_column ==
    LET dates == [i \in DOMAIN df |-> year_to_last_day(df[i].rp)]
    IN  /\ ppc = "reporting"
        /\ IF \E i \in DOMAIN df : dates[i].t = "raise"
           THEN Abort("ValueError")
           ELSE IF \E i \in DOMAIN df : dates[i].t = "date" /\ ~InNsBounds(dates[i])
           THEN Abort("OutOfBoundsDatetime")
           ELSE /\ df' = [i \in DOMAIN df |-> [df[i] EXCEPT !.rp = strftime_dmy(dates[i])]]
                /\ dtype' = [dtype EXCEPT !.rp = "object"]
                /\ Goto("filterdate")
        /\ UNCHANGED storeVars

\* prepare_db_data.py:72 with preprocessing.py:166-180: the column becomes
\* text, and the rows whose text matches the pattern are kept.
filter_by_date_format ==
    LET as_str == [i \in DOMAIN df |-> [df[i] EXCEPT !.issue = Text(astype_str(df[i].issue))]]
    IN  /\ ppc = "filterdate"
        /\ df' = SelectSeq(as_str, LAMBDA row : str_match_date_format(row.issue.s))
        /\ dtype' = [dtype EXCEPT !.issue = "object"]
        /\ Goto("formatdates")
        /\ UNCHANGED storeVars

\* One element of a date column of dtype object: to_datetime, strftime,
\* astype(str).
format_date(x) == Text(astype_str(strftime_iso(to_datetime_dmy(x))))

\* prepare_db_data.py:73 with preprocessing.py:200-215: each of the three
\* date columns is reformatted when its dtype is object.
convert_and_format_date_columns_to_string ==
    LET Fmt(col, x) == IF dtype[col] = "object" THEN format_date(x) ELSE x
    IN  /\ ppc = "formatdates"
        /\ df' = [i \in DOMAIN df |->
                    [df[i] EXCEPT !.issue = Fmt("issue", @),
                                  !.rp = Fmt("rp", @),
                                  !.expiry = Fmt("expiry", @)]]
        /\ UNCHANGED dtype
        /\ Goto("to_csv")
        /\ UNCHANGED storeVars

\* prepare_db_data.py:82 with preprocessing.py:183-194
convert_to_csv ==
    /\ ppc = "to_csv"
    /\ output' = [written |-> TRUE, rows |-> df, text |-> to_csv(df)]
    /\ ppc' = "done"
    /\ UNCHANGED <<folder, xlsx_files, columns, input, df, dtype, err,
                   loaded, run, previous>>
    /\ UNCHANGED storeVars

\* The field texts pd.read_csv takes for a missing value by default.
na_values == {
    <<>>,
    <<"#", "N", "/", "A">>,
    <<"#", "N", "/", "A", " ", "N", "/", "A">>,
    <<"#", "N", "A">>,
    <<"-", "1", ".", "#", "I", "N", "D">>,
    <<"-", "1", ".", "#", "Q", "N", "A", "N">>,
    <<"-", "N", "a", "N">>,
    <<"-", "n", "a", "n">>,
    <<"1", ".", "#", "I", "N", "D">>,
    <<"1", ".", "#", "Q", "N", "A", "N">>,
    <<"<", "N", "A", ">">>,
    <<"N", "/", "A">>,
    <<"N", "A">>,
    <<"N", "U", "L", "L">>,
    <<"N", "a", "N">>,
    <<"N", "o", "n", "e">>,
    <<"n", "/", "a">>,
    <<"n", "a", "n">>,
    <<"n", "u", "l", "l">> }

\* pd.read_csv(file_path) on the data lines: a field text among na_values
\* is NaN; a column whose other texts are all integers is read as int64
\* (as float64 when it has a NaN), one whose other texts are all numbers as
\* float64, and any other column keeps its texts.
read_csv(text) ==
    LET present(f) == {i \in DOMAIN text : text[i][f] \notin na_values}
        ints(f) == \A i \in present(f) : py_int(Text(text[i][f])).ok
        floats(f) == \A i \in present(f) : py_float(text[i][f]).ok
        cell(i, f) ==
            IF i \notin present(f) THEN NaN
            ELSE IF ints(f) /\ present(f) = DOMAIN text THEN Integer(py_int(Text(text[i][f])).n)
            ELSE IF floats(f) THEN py_float(text[i][f]).v
            ELSE Text(text[i][f])
    IN  [i \in DOMAIN text |->
            [f \in {Fields[j] : j \in DOMAIN Fields} |-> cell(i, f)]]

\* backend/app/load_data.py:20-33 on the file the run wrote: read_csv, the
\* labels renamed to the logical field names, one record per line.
load_csv ==
    /\ ppc = "done"
    /\ loaded' = read_csv(output.text)
    /\ ppc' = "loaded"
    /\ UNCHANGED <<folder, xlsx_files, columns, input, df, dtype, output, err,
                   run, previous>>
    /\ UNCHANGED storeVars

(***************************************************************************)
(* The spreadsheet cells the runs are drawn from.                          *)
(***************************************************************************)
TechnicalEfficiencyCells == {
    Text(<<"E", "E", "D", "I", " ", "(", "1", "2", ".", "3", "4", " ", "g", ")">>),
    Text(<<"E", "I", "V", " ", "(", "0", ".", "0", "0", " ", "g", ")">>),
    Text(<<"E", "I", "V", " ", "(", "7", " ", "g", ")">>),
    Text(<<"N", "o", "t", " ", "A", "p", "p", "l", "i", "c", "a", "b", "l", "e">>),
    NaN }

EmissionsCells == {
    Float(25, 1),
    Text(<<"2", ".", "5">>),
    DivisionByZero,
    Text(<<"N", "/", "A">>),
    NaN }

ReportingPeriodCells == {
    Integer(2015),
    Text(<<"2", "0", "1", "5">>),
    Text(<<"2", "0", "1", "5", ".", "0">>),
    NaN,
    Integer(0),
    Integer(1000) }

IssueDateCells == {
    Text(<<"1", "5", "/", "0", "6", "/", "2", "0", "2", "0">>),
    Text(<<"1", "5", "/", "1", "3", "/", "2", "0", "2", "0">>),
    Text(<<"1", "5", "/", "0", "6", "/", "2", "0", "2", "0", "\n">>),
    Text(<<"5", "/", "0", "6", "/", "2", "0", "2", "0">>),
    Text(<<"2", "0", "2", "0", "-", "0", "6", "-", "1", "5">>),
    NaN }

ExpiryDateCells == {
    Text(<<"3", "0", "/", "0", "6", "/", "2", "0", "2", "1">>),
    Text(<<"3", "1", "/", "0", "2", "/", "2", "0", "2", "1">>),
    NaN }

\* A row every normalizer accepts.
BaseRow == [
    name |-> Text(<<"A">>),
    ship_type |-> Text(<<"B", "u", "l", "k">>),
    rp |-> Integer(2015),
    issue |-> Text(<<"1", "5", "/", "0", "6", "/", "2", "0", "2", "0">>),
    expiry |-> Text(<<"3", "0", "/", "0", "6", "/", "2", "0", "2", "1">>),
    co2 |-> Float(25, 1),
    total |-> Float(10005, 1),
    te |-> Text(<<"E", "E", "D", "I", " ", "(", "1", "2", ".", "3", "4", " ", "g", ")">>) ]

\* Another ship, which every normalizer accepts too.
OtherRow == [BaseRow EXCEPT
    !.name = Text(<<"B">>),
    !.ship_type = Text(<<"T", "a", "n", "k", "e", "r">>),
    !.total = Float(7, 0) ]

\* The base row with one column varied over its cells, the other ship, and
\* two rows that an early filter drops although a later step would raise
\* on them.
RawRows ==
    {[BaseRow EXCEPT !.te = x] : x \in TechnicalEfficiencyCells}
    \cup {OtherRow}
    \cup {[BaseRow EXCEPT !.co2 = x] : x \in EmissionsCells}
    \cup {[BaseRow EXCEPT !.rp = x] : x \in ReportingPeriodCells}
    \cup {[BaseRow EXCEPT !.issue = x] : x \in IssueDateCells}
    \cup {[BaseRow EXCEPT !.expiry = x] : x \in ExpiryDateCells}
    \cup {[BaseRow EXCEPT !.te = NaN, !.co2 = Text(<<"N", "/", "A">>)],
          [BaseRow EXCEPT !.co2 = DivisionByZero, !.rp = Integer(0)]}

(***************************************************************************)
(* The input directory.  A file is its name, its suffix, the labels of     *)
(* its header row and its data rows; a row holds a cell per logical field, *)
(* read only for the labels the file has.                                  *)
(***************************************************************************)
COLUMNS_TO_KEEP == <<
    "Name",
    "Ship type",
    "Reporting Period",
    "DoC issue date",
    "DoC expiry date",
    "Annual average CO2 emissions per distance [kg CO2 / n mile]",
    "Total CO2 emissions [m tonnes]",
    "Technical efficiency" >>

\* A sheet of the published report has more columns than the eight.
SheetColumns == <<"IMO Number">> \o COLUMNS_TO_KEEP

Labels(cols) == {cols[i] : i \in DOMAIN cols}

Without(cols, label) == SelectSeq(cols, LAMBDA c : c # label)

File(name, suffix, cols, rows) ==
    [name |-> name, suffix |-> suffix, columns |-> cols, rows |-> rows]

\* Path.iterdir(): the directory's entries, each once, in arbitrary order.
iterdir(dir) ==
    {order \in [1..Cardinality(dir) -> dir] :
        \A i, j \in 1..Cardinality(dir) : order[i] = order[j] => i = j}

\* load_data.py:9-21
get_xlsx_files ==
    /\ ppc = "list"
    /\ \E order \in iterdir(folder) :
          xlsx_files' = SelectSeq(order, LAMBDA file : file.suffix = ".xlsx")
    /\ ppc' = "read"
    /\ UNCHANGED <<folder, columns, input, df, dtype, output, err, loaded, run, previous>>
    /\ UNCHANGED storeVars

\* pd.read_excel(file, header=header): a label the sheet lacks has no cell.
read_excel(file) ==
    [i \in DOMAIN file.rows |->
        [j \in DOMAIN Fields |->
            IF COLUMNS_TO_KEEP[j] \in Labels(file.columns)
            THEN file.rows[i][Fields[j]] ELSE NaN]]

\* The columns of pd.concat(dfs): the union of the frames' labels, in the
\* order of first appearance.
RECURSIVE concat_columns(_)
concat_columns(files) ==
    IF files = <<>> THEN <<>>
    ELSE LET before == concat_columns(SubSeq(files, 1, Len(files) - 1))
         IN  before \o SelectSeq(files[Len(files)].columns,
                                 LAMBDA c : c \notin Labels(before))

\* The rows of pd.concat(dfs): the frames' rows one frame after the other,
\* NaN where a frame lacks a label.
RECURSIVE concat_rows(_)
concat_rows(files) ==
    IF files = <<>> THEN <<>>
    ELSE concat_rows(SubSeq(files, 1, Len(files) - 1)) \o read_excel(files[Len(files)])

\* pd.concat(..., ignore_index=True): row i carries the index label i.
WithIndex(rows) ==
    [i \in DOMAIN rows |->
        [idx |-> i, name |-> rows[i][1], ship_type |-> rows[i][2],
         rp |-> rows[i][3], issue |-> rows[i][4], expiry |-> rows[i][5],
         co2 |-> rows[i][6], total |-> rows[i][7], te |-> rows[i][8]]]

\* load_data.py:24-44 under load_data (47-60).  pd.concat of an empty list
\* raises ValueError("No objects to concatenate").
read_and_combine_xlsx_files ==
    /\ ppc = "read"
    /\ IF xlsx_files = <<>>
       THEN Abort("ValueError")
       ELSE LET combined == WithIndex(concat_rows(xlsx_files))
            IN  /\ df' = combined
                /\ columns' = concat_columns(xlsx_files)
                /\ dtype' = [col \in {"te", "co2", "rp", "issue", "expiry"} |->
                                infer_dtype(Column(combined, col))]
                /\ ppc' = "project"
                /\ UNCHANGED <<folder, xlsx_files, input, output, err, loaded, run, previous>>
    /\ UNCHANGED storeVars

\* No projection: df keeps the columns it has.
project_nothing(cols, columns_to_keep) == cols

\* df[columns_to_keep] when every label is a column of df.
project(cols, columns_to_keep) == columns_to_keep

\* prepare_db_data.py:51  df[columns_to_keep] raises KeyError when a label
\* is no column of df.
load_and_filter_data ==
    /\ ppc = "project"
    /\ IF \E j \in DOMAIN COLUMNS_TO_KEEP : COLUMNS_TO_KEEP[j] \notin Labels(columns)
       THEN Abort("KeyError")
       ELSE /\ columns' = project(columns, COLUMNS_TO_KEEP)
            /\ input' = df
            /\ ppc' = "extract"
            /\ UNCHANGED <<folder, xlsx_files, df, dtype, output, err, loaded, run, previous>>
    /\ UNCHANGED storeVars

StoreIdle ==
    /\ records = <<>>
    /\ ships = <<>>
    /\ nextId = 1
    /\ pc = [p \in Procs |-> "start"]
    /\ record_count = [p \in Procs |-> 0]
    /\ status = 0
    /\ handler = "none"
    /\ page = NoPage

\* Rows of the directories that hold two spreadsheets.
PairRows == {BaseRow, OtherRow, [BaseRow EXCEPT !.expiry = NaN]}

Reverse(cols) == [i \in DOMAIN cols |-> cols[Len(cols) + 1 - i]]

\* The directories the runs start from: without a spreadsheet, with one
\* sheet of up to MaxRows rows, with a sheet that lacks a required label,
\* with two sheets of one row each, the second with or without the
\* "Technical efficiency" column, and with a sheet whose columns stand in
\* another order.
Folders ==
    {{}, {File("notes", ".txt", <<>>, <<>>)}}
    \cup {{File("a", ".xlsx", SheetColumns, rows)} : rows \in SeqsUpTo(RawRows, MaxRows)}
    \cup {{File("a", ".xlsx", Without(SheetColumns, COLUMNS_TO_KEEP[j]), <<BaseRow>>)} :
            j \in DOMAIN COLUMNS_TO_KEEP}
    \cup {{File("a", ".xlsx", SheetColumns, <<r>>), File("b", ".xlsx", cols, <<q>>)} :
            r \in PairRows, q \in PairRows,
            cols \in {SheetColumns, Without(SheetColumns, "Technical efficiency")}}
    \cup {{File("a", ".xlsx", Reverse(SheetColumns), <<BaseRow>>)}}

\* main() about to call load_and_filter_data.
PipeStart ==
    /\ xlsx_files = <<>>
    /\ columns = <<>>
    /\ input = <<>>
    /\ df = <<>>
    /\ dtype = <<>>
    /\ ppc = "list"
    /\ output = NoFile
    /\ err = "none"
    /\ loaded = <<>>

InitPipeline ==
    /\ folder \in Folders
    /\ PipeStart
    /\ run = 1
    /\ previous = NoFile
    /\ StoreIdle

NextPipeline ==
    \/ get_xlsx_files
    \/ read_and_combine_xlsx_files
    \/ load_and_filter_data
    \/ extract_technical_efficiency_value
    \/ dropna
    \/ drop_zero
    \/ drop_division_by_zero
    \/ astype_float_column
    \/ convert_reporting_column
    \/ filter_by_date_format
    \/ convert_and_format_date_columns_to_string
    \/ convert_to_csv
    \/ load_csv

SpecPipeline == InitPipeline /\ [][NextPipeline]_vars

\* main() called once more on the directory, after a run that wrote its file.
run_again ==
    /\ ppc = "done"
    /\ run = 1
    /\ run' = 2
    /\ previous' = output
    /\ xlsx_files' = <<>>
    /\ columns' = <<>>
    /\ input' = <<>>
    /\ df' = <<>>
    /\ dtype' = <<>>
    /\ ppc' = "list"
    /\ output' = NoFile
    /\ err' = "none"
    /\ loaded' = <<>>
    /\ UNCHANGED folder
    /\ UNCHANGED storeVars

\* Directories with one or two spreadsheets of one row each.
RerunFolders ==
    {{File("a", ".xlsx", SheetColumns, <<r>>)} : r \in PairRows}
    \cup {{File("a", ".xlsx", SheetColumns, <<r>>), File("b", ".xlsx", SheetColumns, <<q>>)} :
            r \in PairRows, q \in PairRows}

InitRerun ==
    /\ folder \in RerunFolders
    /\ PipeStart
    /\ run = 1
    /\ previous = NoFile
    /\ StoreIdle

NextRerun == NextPipeline \/ run_again

SpecRerun == InitRerun /\ [][NextRerun]_vars

(***************************************************************************)
(* Claims about the pipeline.                                              *)
(***************************************************************************)
OutputIdx == {output.rows[i].idx : i \in DOMAIN output.rows}

\* Some substring of s is digits, a dot, digits.
HasDecimal(s) ==
    \E p \in DOMAIN s : /\ s[p] = "."
                        /\ p > 1 /\ IsDigit(s[p - 1])
                        /\ p < Len(s) /\ IsDigit(s[p + 1])

\* C5: in every row of the written output technical_efficiency is a float
\* greater than zero, and the row comes from an input row whose cell is text
\* holding a digits-dot-digits substring whose first occurrence is not zero.
C5_TechnicalEfficiencyPositive ==
    output.written =>
        \A i \in DOMAIN output.rows :
            LET row == output.rows[i]
                raw == input[row.idx].te
            IN  /\ row.te.t = "float" /\ row.te.n > 0
                /\ raw.t = "str" /\ HasDecimal(raw.s)
                /\ astype_float(str_extract(raw)).v.n # 0

\* A run wrote a row and left out a row whose extracted value is 0.0.
C5_Witness ==
    /\ output.written
    /\ output.rows # <<>>
    /\ \E i \in DOMAIN input :
          /\ i \notin OutputIdx
          /\ input[i].te.t = "str" /\ HasDecimal(input[i].te.s)
          /\ astype_float(str_extract(input[i].te)).v.n = 0

\* C6: when the float coercion runs no row holds "Division by zero!"; the
\* coercion either raises, ending the run with nothing written, exactly when
\* some surviving value is not a number, or keeps every row with a float;
\* no row of the written output comes from a sentinel row.
C6_SentinelDroppedBeforeCoercion ==
    [][/\ ppc = "astype" =>
            /\ \A i \in DOMAIN df : df[i].co2 # DivisionByZero
            /\ IF \E i \in DOMAIN df : ~astype_float(df[i].co2).ok
               THEN ppc' = "aborted" /\ ~output'.written
               ELSE /\ [i \in DOMAIN df' |-> df'[i].idx] = [i \in DOMAIN df |-> df[i].idx]
                    /\ \A i \in DOMAIN df' : df'[i].co2.t \in {"float", "nan"}
       /\ output'.written =>
            \A i \in DOMAIN output'.rows :
                /\ input[output'.rows[i].idx].co2 # DivisionByZero
                /\ output'.rows[i].co2.t \in {"float", "nan"}]_vars

\* A sentinel row was dropped, and then the coercion raised on a surviving
\* value that is no number.
C6_Witness ==
    /\ ppc = "aborted" /\ err = "ValueError" /\ ~output.written
    /\ \E i \in DOMAIN input : input[i].co2 = DivisionByZero
    /\ \A i \in DOMAIN df : df[i].co2 # DivisionByZero
    /\ \E i \in DOMAIN df : ~astype_float(df[i].co2).ok

\* The cell is text YYYY-MM-DD naming a calendar date.
IsIsoDate(x) ==
    /\ x.t = "str"
    /\ Len(x.s) = 10
    /\ \A i \in {1, 2, 3, 4, 6, 7, 9, 10} : IsDigit(x.s[i])
    /\ x.s[5] = "-" /\ x.s[8] = "-"
    /\ IsDate(ToNat(SubSeq(x.s, 1, 4)), ToNat(SubSeq(x.s, 6, 7)), ToNat(SubSeq(x.s, 9, 10)))

\* C7: in every row of the written output doc_issue_date, reporting_period
\* and doc_expiry_date are each a valid YYYY-MM-DD date.  The code writes
\* "nan" for what it could not parse and filters only the shape of
\* doc_issue_date.
C7_DatesAreIso ==
    output.written =>
        \A i \in DOMAIN output.rows :
            /\ IsIsoDate(output.rows[i].issue)
            /\ IsIsoDate(output.rows[i].rp)
            /\ IsIsoDate(output.rows[i].expiry)

\* C8: no row of the written output comes from an input row whose
\* reporting_period int() rejects.  No step of process_data removes such a
\* row.
C8_UnconvertiblePeriodExcluded ==
    output.written =>
        \A i \in DOMAIN output.rows : py_int(input[output.rows[i].idx].rp).ok

\* Two digits, slash, two digits, slash, four digits, and nothing else.
HasDateShape(s) ==
    /\ Len(s) = 10
    /\ \A i \in DOMAIN s : IF i \in {3, 6} THEN s[i] = "/" ELSE IsDigit(s[i])

\* C9: the date-format filter keeps exactly the rows whose doc_issue_date,
\* as text, has the shape DD/MM/YYYY.  The pattern's $ also accepts that
\* shape followed by a newline.
C9_FilterKeepsExactlyShape ==
    [][ppc = "filterdate" =>
          [i \in DOMAIN df' |-> df'[i].idx]
              = [i \in DOMAIN SelectSeq(df, LAMBDA row : HasDateShape(astype_str(row.issue)))
                   |-> SelectSeq(df, LAMBDA row : HasDateShape(astype_str(row.issue)))[i].idx]]_vars

\* C10: period reconciliation never ends in an error raised by
\* year_to_last_day, and it turns a value int() accepts as y into
\* 31/12/y and any other value into a missing date.  The code builds the
\* date outside its try block, so a year that is no date raises ValueError.
C10_YearToLastDayTotal ==
    [][ppc = "reporting" =>
          /\ err' # "ValueError"
          /\ ppc' = "filterdate" =>
                \A i \in DOMAIN df :
                    LET c == py_int(df[i].rp)
                    IN  df'[i].rp =
                            IF c.ok
                            THEN Text(<<"3", "1", "/", "1", "2", "/">> \o NatDigits(c.n, 4))
                            ELSE NaN]_vars

(***************************************************************************)
(* Claims about the reader, the projector and the run as a whole.          *)
(***************************************************************************)
NoSpreadsheet == \A file \in folder : file.suffix # ".xlsx"

\* The run ended in the reader: before df had any column.
ReaderRaised == ppc = "aborted" /\ columns = <<>>

\* C11: loading from a directory that holds no spreadsheet file does not
\* fail: the reader returns a row set of zero rows.
C11_EmptyDirectoryLoads ==
    (NoSpreadsheet /\ ppc \notin {"list", "read"})
        => (~ReaderRaised /\ df = <<>>)

Required == Labels(COLUMNS_TO_KEEP)

\* C12 as amended: the projector leaves exactly the eight required columns
\* in the order of COLUMNS_TO_KEEP and hands the rows on; when a required
\* label is no column of the combined row set it raises KeyError, the run
\* aborts, and no table is handed on or written.
C12_ProjectorKeepsEightOrKeyError ==
    [][ppc = "project" =>
          IF Required \subseteq Labels(columns)
          THEN /\ columns' = COLUMNS_TO_KEEP
               /\ input' = df
               /\ ppc' = "extract"
          ELSE /\ ppc' = "aborted"
               /\ err' = "KeyError"
               /\ columns' = columns
               /\ input' = <<>>
               /\ output' = NoFile]_vars

\* The run aborted in the projector on a sheet that lacks a required label.
C12_Witness ==
    /\ ppc = "aborted"
    /\ err = "KeyError"
    /\ columns # <<>>
    /\ ~(Required \subseteq Labels(columns))

\* C12 as stated: the same, the failure being a SchemaError.
C12_ProjectorKeepsEightOrSchemaError ==
    [][ppc = "project" =>
          IF Required \subseteq Labels(columns)
          THEN /\ columns' = COLUMNS_TO_KEEP
               /\ input' = df
               /\ ppc' = "extract"
          ELSE /\ ppc' = "aborted"
               /\ err' = "SchemaError"
               /\ columns' = columns
               /\ input' = <<>>
               /\ output' = NoFile]_vars

\* C13: a run in which the reader, the projector or a normalizer raised
\* ends with the error and without an output file; the file exists only
\* once every statement of process_data has run without error, and it holds
\* the rows process_data returned.
C13_NoOutputFromFailedRun ==
    /\ ppc = "aborted" => (err # "none" /\ output = NoFile)
    /\ output.written => (ppc \in {"done", "loaded"} /\ err = "none" /\ output.rows = df)
    /\ ppc \notin {"done", "loaded"} => output = NoFile

\* A normalizer raised on rows the projector had handed on.
C13_Witness ==
    /\ ppc = "aborted"
    /\ input # <<>>
    /\ err \in {"ValueError", "OutOfBoundsDatetime", "AttributeError"}
    /\ ~output.written

\* C14: a second run on the unchanged directory writes the file the first
\* run wrote: the same lines in the same order, whatever order the
\* directory listing yields the files in.
C14_RerunWritesSameFile ==
    (run = 2 /\ output.written) => output.text = previous.text

\* C15: load_csv on the file the sink wrote returns, for every row and each
\* of the eight fields, the value the sink was given, the missing marker of
\* a date field included.
C15_RoundTrip ==
    ppc = "loaded" =>
        /\ Len(loaded) = Len(output.rows)
        /\ \A i \in DOMAIN loaded, j \in DOMAIN Fields :
              loaded[i][Fields[j]] = output.rows[i][Fields[j]]

\* The rows of frame are rows of input in input's order, each at most
\* once, with name, ship_type and total_co2_emissions as in input.
RowsOnlyRemoved(frame) ==
    /\ \A i \in DOMAIN frame : frame[i].idx \in DOMAIN input
    /\ \A i, j \in DOMAIN frame : i < j => frame[i].idx < frame[j].idx
    /\ \A i \in DOMAIN frame :
          /\ frame[i].name = input[frame[i].idx].name
          /\ frame[i].ship_type = input[frame[i].idx].ship_type
          /\ frame[i].total = input[frame[i].idx].total

\* C19: from the projector on, the rows of process_data's frame, and the
\* rows it returns to the sink, are a subsequence of its input rows with
\* name, ship_type and total_co2_emissions unchanged.
C19_OnlyRowsRemoved ==
    /\ (ppc \notin {"list", "read", "project"} /\ (ppc = "aborted" => input # <<>>))
          => RowsOnlyRemoved(df)
    /\ output.written => RowsOnlyRemoved(output.rows)

\* A file was written that holds the second input row and not the first.
C19_Witness ==
    /\ output.written
    /\ Len(input) > Len(output.rows)
    /\ \E i \in DOMAIN output.rows : output.rows[i].idx > i

(***************************************************************************)
(* Claims about the handlers that address one record, and the list.        *)
(***************************************************************************)
IdsOf(table) == {table[i].id : i \in DOMAIN table}

\* C16: get-by-id, update-by-id and delete-by-id with an id that no row of
\* the table has answer 404 and leave the table as it is.
C16_MissingIdIs404 ==
    [][\A p \in Procs, id \in 1..nextId :
          (/\ id \notin IdsOf(ships)
           /\ \/ get_ship_by_id(p, id)
              \/ \E name \in ShipNames : update_ship_by_id(p, id, name)
              \/ delete_ship_by_id(p, id))
             => (status' = 404 /\ ships' = ships /\ nextId' = nextId)]_vars

\* An update answered 404 against a table that holds other rows.
C16_Witness ==
    /\ handler = "update_ship_by_id"
    /\ status = 404
    /\ ships # <<>>

\* The number of rows the table has from offset skip on, up to limit.
PageLen(skip, limit) ==
    IF Len(ships) <= skip THEN 0
    ELSE IF Len(ships) - skip < limit THEN Len(ships) - skip ELSE limit

\* C17: the list handler answers with the number of rows of the table and
\* the rows at offsets skip .. skip + limit - 1 that exist, at most limit of
\* them; when there is none (the table is empty, or skip is at or past its
\* end) it answers 404; it leaves the table as it is.
C17_ListReturnsCountAndPage ==
    [][\A p \in Procs, skip \in 0..MaxRecords, limit \in 1..MaxRecords :
          get_ships(p, skip, limit) =>
             /\ ships' = ships
             /\ IF PageLen(skip, limit) = 0
                THEN status' = 404 /\ ~page'.returned
                ELSE /\ status' = 200
                     /\ page'.returned
                     /\ page'.total_count = Len(ships)
                     /\ page'.ships = [i \in 1..PageLen(skip, limit) |-> ships[skip + i]]
                     /\ Len(page'.ships) <= limit]_vars

\* A page that starts after the first row and ends before the last.
C17_Witness ==
    /\ handler = "get_ships"
    /\ status = 200
    /\ page.total_count = Len(ships)
    /\ Len(page.ships) < page.total_count
    /\ page.ships[1] = ships[2]
    /\ Len(ships) > Len(page.ships) + 1

\* C18: an update of a row that exists answers 200, keeps every row's id
\* and place, gives the addressed row the supplied name and leaves every
\* other row as it was; a delete of a row that exists answers 200 and
\* removes that row and no other; and an id that was issued and is in the
\* table no more never comes back, so that a later get of it finds nothing.
C18_OnlyAddressedRecordAffected ==
    [][/\ \A p \in Procs, id \in IdsOf(ships) :
             /\ \A name \in ShipNames :
                   update_ship_by_id(p, id, name) =>
                      /\ status' = 200
                      /\ Len(ships') = Len(ships)
                      /\ \A i \in DOMAIN ships :
                            /\ ships'[i].id = ships[i].id
                            /\ ships[i].id = id => ships'[i].name = name
                            /\ ships[i].id # id => ships'[i] = ships[i]
             /\ delete_ship_by_id(p, id) =>
                   /\ status' = 200
                   /\ id \notin IdsOf(ships')
                   /\ Len(ships') = Len(ships) - 1
                   /\ \A i \in DOMAIN ships' :
                         ships'[i] = ships[IF ships[i].id < id THEN i ELSE i + 1]
       /\ \A id \in 1..(nextId - 1) :
             id \notin IdsOf(ships) => id \notin IdsOf(ships')]_vars

\* A delete answered 200 and left rows behind, one of them with the name
\* the deleted row had.
C18_Witness ==
    /\ handler = "delete_ship_by_id"
    /\ status = 200
    /\ ships # <<>>
    /\ Cardinality(IdsOf(ships)) < nextId - 1
    /\ \E i \in DOMAIN records : records[i] \in NamesOf(ships)

=============================================================================
